---- MODULE Spec2Model ----
(***************************************************************************)
(* Model of baybe's BernoulliMultiArmedBanditSurrogate                     *)
(* (baybe/surrogates/multi_armed_bandit.py) and of the structure hook and  *)
(* to_botorch of AcquisitionFunction (baybe/acquisition/base.py).          *)
(*                                                                         *)
(* Real numbers (the shape parameters of the beta prior and posterior)     *)
(* are integers counted in units of 1/Den; a quotient is the pair          *)
(* <<numerator, denominator>>, and 0/0 (not-a-number) is <<0, 0>>.         *)
(* A tensor of shape (n, N) is a sequence of n rows of length N.           *)
(***************************************************************************)
EXTENDS Integers, Sequences, FiniteSets

VARIABLES
    prior,            \* BernoulliMultiArmedBanditSurrogate.prior: <<alpha, beta>> in 1/Den
    win_lose_counts,  \* ._win_lose_counts: None, or <<wins, losses>>
    call,             \* the call of the sequential caller that has just returned or raised
    pc,               \* concurrent readers: position of each thread
    job,              \* concurrent readers: the query each thread runs
    loc,              \* concurrent readers: the locals of each thread
    given,            \* structure hook: the persisted value handed to the load
    val,              \* structure hook: the hook's local `val`
    stage,            \* structure hook: position of the load in added_deprecation_hook
    warned,           \* structure hook: DeprecationWarnings emitted during the load
    hooked,           \* structure hook: the values the base hook was invoked with
    obj,              \* structure hook: the outcome of the load
    acqf,             \* to_botorch: the acquisition function and the arguments of the call
    built             \* to_botorch: the outcome of the call

vars == <<prior, win_lose_counts, call, pc, job, loc,
          given, val, stage, warned, hooked, obj, acqf, built>>

surrogateVars == <<prior, win_lose_counts, call>>
readerVars == <<pc, job, loc>>
hookVars == <<given, val, stage, warned, hooked, obj>>
botorchVars == <<acqf, built>>

----------------------------------------------------------------------------
(* Bounds of the model *)

MaxArms == 2      \* largest number N of bandit arms (columns of train_x)
MaxRows == 2      \* largest number of training rows of one fit
MaxCand == 2      \* largest number of candidate rows of one posterior query
MaxParams == 2    \* largest number of parameters of a search space
Den == 2          \* real numbers are multiples of 1/Den

----------------------------------------------------------------------------
(* Values *)

None == <<>>

\* No call in progress; the fields of a call are its name, its arguments (ss, x, y,
\* cand), whether the surrogate was trained when it was made, the exception it
\* raised ("" for none) and the value it returned (<<>> for none).
NoCall == [op |-> "none", ss |-> <<>>, x |-> <<>>, y |-> <<>>, cand |-> <<>>,
           trained |-> FALSE, err |-> "", res |-> <<>>]

\* The query operations of the surrogate
Queries == {"posterior", "posterior_beta_parameters", "maximum_a_posteriori_per_arm"}

Ok(v) == [err |-> "", res |-> v]
Raise(e) == [err |-> e, res |-> <<>>]

\* baybe.targets.binary: computational values of the two outcomes of a binary target
POSITIVE_VALUE_COMP == 1
NEGATIVE_VALUE_COMP == 0

\* Outcome values a training table may carry: the two sentinels and one other value.
Outcomes == {NEGATIVE_VALUE_COMP, POSITIVE_VALUE_COMP, 2}

\* A parameter of a search space: its class and, for a categorical one, its encoding.
Parameters ==
    { [cls |-> "CategoricalParameter", encoding |-> "OHE"],
      [cls |-> "CategoricalParameter", encoding |-> "INT"],
      [cls |-> "NumericalDiscreteParameter", encoding |-> "NA"] }

SeqsUpTo(S, lo, hi) == UNION { [1..n -> S] : n \in lo..hi }

SearchSpaces == SeqsUpTo(Parameters, 0, MaxParams)

\* Rows of width n with entries 0 and 1 (one-hot, all-zero and ambiguous rows).
Rows(n) == [1..n -> {0, 1}]

OneHot(n, k) == [i \in 1..n |-> IF i = k THEN 1 ELSE 0]

IsOneHot(row) == \E k \in 1..Len(row) : row = OneHot(Len(row), k)

\* Training rows: the one-hot rows of width n and the ambiguous all-ones row.
TrainRows(n) == { OneHot(n, k) : k \in 1..n } \cup { [i \in 1..n |-> 1] }

\* The beta priors a surrogate is constructed with: Beta(1,1) (the default),
\* Beta(1/Den,1/Den), Beta(2,1), Beta(1/Den,3), Beta(1,1/Den).
Priors == { <<Den, Den>>, <<1, 1>>, <<2 * Den, Den>>, <<1, 3 * Den>>, <<Den, 1>> }

----------------------------------------------------------------------------
(* Tensor helpers *)

RECURSIVE SumTo(_, _)
SumTo(f, n) == IF n = 0 THEN 0 ELSE f[n] + SumTo(f, n - 1)

\* (t * mask).sum(axis=0): column sums of the rows of t whose mask entry is set
MaskedColumnSum(t, mask) ==
    [i \in 1..Len(t[1]) |->
        SumTo([r \in 1..Len(t) |-> IF mask[r] THEN t[r][i] ELSE 0], Len(t))]

\* Mutant of ArgMax: the index of the last maximal entry
ArgMaxLast(row) ==
    CHOOSE k \in 1..Len(row) :
        /\ \A j \in 1..Len(row) : row[j] <= row[k]
        /\ \A j \in (k + 1)..Len(row) : row[j] < row[k]

\* Tensor.argmax(-1) of one row: the index of the first maximal entry
ArgMax(row) ==
    CHOOSE k \in 1..Len(row) :
        /\ \A j \in 1..Len(row) : row[j] <= row[k]
        /\ \A j \in 1..(k - 1) : row[j] < row[k]

----------------------------------------------------------------------------
(* AcquisitionFunction.to_botorch (SpecBotorch)                             *)
(*                                                                         *)
(* A name is a sequence of strings that spell it; an abbreviation is spelt *)
(* character by character, a class name, of which only the identity        *)
(* matters, in one piece.                                                  *)

\* str.startswith for a one-character prefix
StartsWith(name, c) == Len(name) >= 1 /\ name[1] = c

\* self.__class__.__name__ of the concrete acquisition functions
ClassNames == { <<"UpperConfidenceBound">>, <<"qUpperConfidenceBound">> }

\* _abbreviation of the concrete acquisition functions
Abbreviations ==
    { <<"U", "C", "B">>, <<"q", "U", "C", "B">>, <<"P", "q">>, <<"q", "X">> }

\* Names of the attributes an acquisition function configuration may carry.
FieldNames == {"beta", "gamma"}

\* What getattr(botorch.acquisition, name) finds: nothing, or a class whose
\* __init__ accepts `params` besides the model and requires `required` of them.
NotFound == [found |-> FALSE, params |-> {}, required |-> {}]

BotorchClasses ==
    { [found |-> TRUE, params |-> ps, required |-> rs] :
        ps \in SUBSET {"best_f", "beta"}, rs \in SUBSET {"best_f", "beta"} }

Lookups == {NotFound} \cup { c \in BotorchClasses : c.required \subseteq c.params }

\* What get_acquisition_function knows of a name: nothing, or the keyword
\* arguments it requires for it.
Factories ==
    {NotFound} \cup { [found |-> TRUE, params |-> FieldNames, required |-> rs] :
                        rs \in SUBSET {"beta"} }

NoAcqf == [name |-> <<>>, abbreviation |-> <<>>, fields |-> {},
           cls |-> NotFound, factory |-> NotFound, train_x |-> <<>>, train_y |-> <<>>]

NotBuilt == [done |-> FALSE, err |-> "", path |-> "", key |-> <<>>, kwargs |-> {},
             best_f |-> <<>>, objective |-> "", X_observed |-> <<>>]

\* Mutant of is_mc: the abbreviation ends with "q".
is_mc_suffix(abbreviation) ==
    Len(abbreviation) >= 1 /\ abbreviation[Len(abbreviation)] = "q"

\* AcquisitionFunction.is_mc: cls._abbreviation.startswith("q")
is_mc(abbreviation) == StartsWith(abbreviation, "q")

\* baybe.utils.basic.filter_attributes: the attributes of the object whose
\* names the callable accepts.
filter_attributes(fields, params) == fields \cap params

\* Mutant of MaxOf: the least observed outcome.
MinOf(y) == CHOOSE v \in { y[r] : r \in 1..Len(y) } : \A r \in 1..Len(y) : v <= y[r]

\* train_y.max().item()
MaxOf(y) == CHOOSE v \in { y[r] : r \in 1..Len(y) } : \A r \in 1..Len(y) : y[r] <= v

\* Mutant of PassedFields: every attribute of the configuration is passed.
PassedAllFields(fields, fields_dict) == fields

\* The configuration fields to_botorch passes on: `**fields_dict`
PassedFields(fields, fields_dict) == fields_dict

\* `if "best_f" in signature(acqf_cls).parameters: fields_dict.update(...)`
BestFKwargs(params) == IF "best_f" \in params THEN {"best_f"} ELSE {}

\* A Python call of a constructor with keyword arguments kwargs
CallError(class, kwargs) ==
    IF ~(kwargs \subseteq class.params) \/ ~(class.required \subseteq kwargs)
    THEN "TypeError"
    ELSE ""

\* botorch's get_acquisition_function called with a name and keyword arguments
FactoryError(factory, kwargs) ==
    IF ~factory.found THEN "NotImplementedError"
    ELSE IF ~(factory.required \subseteq kwargs) THEN "ValueError"
    ELSE ""

\* AcquisitionFunction.to_botorch
to_botorch(a) ==
    IF ~a.cls.found
    THEN [NotBuilt EXCEPT !.done = TRUE, !.err = "AttributeError"]
    ELSE LET fields_dict == PassedFields(a.fields, filter_attributes(a.fields, a.cls.params))
         IN  IF ~is_mc(a.abbreviation)
             THEN LET best_f == MaxOf(a.train_y)
                      kwargs == fields_dict \cup BestFKwargs(a.cls.params)
                  IN  [NotBuilt EXCEPT !.done = TRUE, !.path = "analytic",
                                       !.key = a.name, !.kwargs = kwargs,
                                       !.best_f = <<best_f>>,
                                       !.err = CallError(a.cls, kwargs)]
             ELSE [NotBuilt EXCEPT !.done = TRUE, !.path = "mc",
                                   !.key = a.abbreviation, !.kwargs = fields_dict,
                                   !.objective = "IdentityMCObjective",
                                   !.X_observed = a.train_x,
                                   !.err = FactoryError(a.factory, fields_dict)]

BotorchIdle == acqf = NoAcqf /\ built = NotBuilt

\* The acquisition functions and arguments to_botorch is called with.
ToBotorchCalls ==
    { [name |-> n, abbreviation |-> ab, fields |-> fs, cls |-> c, factory |-> f,
       train_x |-> x, train_y |-> y] :
        n \in ClassNames, ab \in Abbreviations, fs \in SUBSET FieldNames,
        c \in Lookups, f \in Factories, x \in [1..1 -> Rows(1)],
        y \in UNION { [1..m -> Outcomes] : m \in 1..MaxRows } }

ToBotorch ==
    /\ ~built.done
    /\ \E a \in ToBotorchCalls :
        /\ acqf' = a
        /\ built' = to_botorch(a)
    /\ UNCHANGED <<surrogateVars, readerVars, hookVars>>

\* the scoring function (or the exception) reaches the caller
BotorchReturn ==
    /\ built.done
    /\ acqf' = NoAcqf
    /\ built' = NotBuilt
    /\ UNCHANGED <<surrogateVars, readerVars, hookVars>>

----------------------------------------------------------------------------
(* The structure hook of AcquisitionFunction (SpecLoad)                     *)
(*                                                                         *)
(* A persisted value is a bare string (isstr, the string in `type`) or a   *)
(* record with the keys `keys`; `type` and `beta` hold the values of the   *)
(* keys of these names ("" when the key is absent).                        *)

NoValue == [isstr |-> TRUE, keys |-> {}, type |-> "", beta |-> ""]
NoObject == [err |-> "", cls |-> "", beta |-> ""]

Str(tag) == [isstr |-> TRUE, keys |-> {}, type |-> tag, beta |-> ""]

Dict(keys, tag, beta) ==
    [isstr |-> FALSE, keys |-> keys,
     type |-> IF "type" \in keys THEN tag ELSE "",
     beta |-> IF "beta" \in keys THEN beta ELSE ""]

Tags == {"UpperConfidenceBound", "qUpperConfidenceBound", "VarUCB", "qVarUCB",
         "NoSuchAcquisitionFunction"}

StoredBetas == {"0.2", "1.0", "5.0", "100.0"}

PersistedValues ==
    { Str(tag) : tag \in Tags }
        \cup { Dict(keys, tag, beta) :
                 keys \in SUBSET {"type", "beta"}, tag \in Tags, beta \in StoredBetas }

\* The concrete acquisition functions the serialization layer can look up, each
\* with the default of its beta attribute.
AcquisitionClasses == {"UpperConfidenceBound", "qUpperConfidenceBound"}
DefaultBeta == "0.2"

\* Direct construction of an acquisition function object.
Construct(cls, beta) == [err |-> "", cls |-> cls, beta |-> beta]

\* get_base_structure_hook(AcquisitionFunction): looks the class up by the type
\* tag and constructs it from the remaining fields, with defaults for absent ones.
BaseStructureHook(v) ==
    IF ~v.isstr /\ "type" \notin v.keys
    THEN [NoObject EXCEPT !.err = "KeyError"]
    ELSE IF v.type \notin AcquisitionClasses
    THEN [NoObject EXCEPT !.err = "LookupError"]
    ELSE Construct(v.type, IF ~v.isstr /\ "beta" \in v.keys THEN v.beta ELSE DefaultBeta)

\* The keys of the dict UCB_DEPRECATIONS of added_deprecation_hook
DeprecatedNames == {"VarUCB", "qVarUCB"}

\* Mutant of UCB_DEPRECATIONS: both names map to the analytic class.
UCB_DEPRECATIONS_Unprefixed(entry) == "UpperConfidenceBound"

\* The dict UCB_DEPRECATIONS of added_deprecation_hook, on its keys
UCB_DEPRECATIONS(entry) ==
    IF entry = "VarUCB" THEN "UpperConfidenceBound" ELSE "qUpperConfidenceBound"

\* Mutant of RewrittenValue: the substitute beta is left out.
RewrittenValueTypeOnly(entry) == Dict({"type"}, UCB_DEPRECATIONS(entry), "")

\* `val = {"type": UCB_DEPRECATIONS[entry], "beta": 100.0}`
RewrittenValue(entry) == Dict({"type", "beta"}, UCB_DEPRECATIONS(entry), "100.0")

\* Mutant of StageAfterEntry: the base hook is called on the value as given.
StageAfterEntryHookFirst(entry) == "hook"

\* Where added_deprecation_hook continues after computing `entry`: with the
\* body of the `if` (the warning, then the rewrite) for a deprecated name, with
\* `return hook(val, cls)` otherwise.
StageAfterEntry(entry) == IF entry \in DeprecatedNames THEN "warn" ELSE "hook"

HookIdle ==
    /\ given = NoValue /\ val = NoValue /\ stage = "idle"
    /\ warned = 0 /\ hooked = <<>> /\ obj = NoObject

\* converter.structure(v, AcquisitionFunction) enters added_deprecation_hook
Load ==
    /\ stage = "idle"
    /\ \E v \in PersistedValues :
        /\ given' = v
        /\ val' = v
    /\ stage' = "entry"
    /\ warned' = 0 /\ hooked' = <<>> /\ obj' = NoObject
    /\ UNCHANGED <<botorchVars, surrogateVars, readerVars>>

\* `if (entry := val if isinstance(val, str) else val["type"]) in UCB_DEPRECATIONS`
HookEntry ==
    /\ stage = "entry"
    /\ IF ~val.isstr /\ "type" \notin val.keys
       THEN /\ obj' = [NoObject EXCEPT !.err = "KeyError"]
            /\ stage' = "done"
       ELSE /\ stage' = StageAfterEntry(val.type)
            /\ UNCHANGED obj
    /\ UNCHANGED <<botorchVars, surrogateVars, readerVars, given, val, warned, hooked>>

\* `warnings.warn(..., DeprecationWarning)`
HookWarn ==
    /\ stage = "warn"
    /\ warned' = warned + 1
    /\ stage' = "rewrite"
    /\ UNCHANGED <<botorchVars, surrogateVars, readerVars, given, val, hooked, obj>>

\* `val = {"type": UCB_DEPRECATIONS[entry], "beta": 100.0}`
HookRewrite ==
    /\ stage = "rewrite"
    /\ val' = RewrittenValue(val.type)
    /\ stage' = "hook"
    /\ UNCHANGED <<botorchVars, surrogateVars, readerVars, given, warned, hooked, obj>>

\* `return hook(val, cls)`
HookBase ==
    /\ stage = "hook"
    /\ hooked' = Append(hooked, val)
    /\ obj' = BaseStructureHook(val)
    /\ stage' = "done"
    /\ UNCHANGED <<botorchVars, surrogateVars, readerVars, given, val, warned>>

\* the loaded object (or the exception) reaches the caller
LoadReturn ==
    /\ stage = "done"
    /\ given' = NoValue /\ val' = NoValue /\ stage' = "idle"
    /\ warned' = 0 /\ hooked' = <<>> /\ obj' = NoObject
    /\ UNCHANGED <<botorchVars, surrogateVars, readerVars>>

InitLoad ==
    /\ prior = <<Den, Den>>
    /\ win_lose_counts = None
    /\ call = NoCall
    /\ pc = <<>> /\ job = <<>> /\ loc = <<>>
    /\ HookIdle
    /\ BotorchIdle

NextLoad == Load \/ HookEntry \/ HookWarn \/ HookRewrite \/ HookBase \/ LoadReturn

SpecLoad == InitLoad /\ [][NextLoad]_vars

----------------------------------------------------------------------------
(* BernoulliMultiArmedBanditSurrogate *)

\* Mutant of MatchesSearchSpace: the pattern CategoricalParameter() without the
\* encoding.
MatchesAnyEncoding(ss) ==
    /\ Len(ss) = 1
    /\ ss[1].cls = "CategoricalParameter"

\* The match statement of _fit: a SearchSpace whose parameters are exactly
\* one CategoricalParameter with encoding OHE.
MatchesSearchSpace(ss) ==
    /\ Len(ss) = 1
    /\ ss[1].cls = "CategoricalParameter"
    /\ ss[1].encoding = "OHE"

\* (train_x * (train_y == float(value))).sum(axis=0)
CountOutcome(train_x, train_y, value) ==
    MaskedColumnSum(train_x, [r \in 1..Len(train_y) |-> train_y[r] = value])

\* Mutant of FitCounts: the new statistics are added to the stored ones.
FitCountsAccumulate(old, train_x, train_y) ==
    LET wins == CountOutcome(train_x, train_y, POSITIVE_VALUE_COMP)
        losses == CountOutcome(train_x, train_y, NEGATIVE_VALUE_COMP)
    IN  IF old = None \/ Len(old[1]) # Len(wins)
        THEN <<wins, losses>>
        ELSE <<[i \in 1..Len(wins) |-> old[1][i] + wins[i]],
               [i \in 1..Len(losses) |-> old[2][i] + losses[i]]>>

\* Mutant of FitCounts: the losses compare against the positive value as well.
FitCountsLossesFromPositive(old, train_x, train_y) ==
    LET wins == CountOutcome(train_x, train_y, POSITIVE_VALUE_COMP)
        losses == CountOutcome(train_x, train_y, POSITIVE_VALUE_COMP)
    IN  <<wins, losses>>

\* The statistics _fit assigns: torch.vstack([wins, losses]).to(torch.int).
\* `old` is the surrogate's _win_lose_counts at the time of the call.
FitCounts(old, train_x, train_y) ==
    LET wins == CountOutcome(train_x, train_y, POSITIVE_VALUE_COMP)
        losses == CountOutcome(train_x, train_y, NEGATIVE_VALUE_COMP)
    IN  <<wins, losses>>

\* Mutant of CountsAfterRaise: fit clears the statistics before it validates
\* the search space.
CountsResetBeforeRaise(counts) == None

\* What _win_lose_counts holds when _fit raises IncompatibleSearchSpaceError:
\* the raise of the match statement precedes the only assignment of _fit.
CountsAfterRaise(counts) == counts

\* fit: raises IncompatibleSearchSpaceError before reading the training data,
\* otherwise overwrites _win_lose_counts.
Fit ==
    /\ call = NoCall
    /\ \E ss \in SearchSpaces :
        IF ~MatchesSearchSpace(ss)
        THEN /\ call' = [NoCall EXCEPT !.op = "fit", !.ss = ss,
                                       !.trained = (win_lose_counts # None),
                                       !.err = "IncompatibleSearchSpaceError"]
             /\ win_lose_counts' = CountsAfterRaise(win_lose_counts)
        ELSE \E n \in 1..MaxArms, m \in 1..MaxRows :
             \E train_x \in [1..m -> TrainRows(n)], train_y \in [1..m -> Outcomes] :
                /\ win_lose_counts' = FitCounts(win_lose_counts, train_x, train_y)
                /\ call' = [NoCall EXCEPT !.op = "fit", !.ss = ss,
                                          !.trained = (win_lose_counts # None),
                                          !.x = train_x, !.y = train_y]
    /\ UNCHANGED <<prior, readerVars, hookVars, botorchVars>>

\* Mutant of posterior_beta_parameters: without the check for None the sum
\* None + Tensor raises TypeError.
posterior_beta_parameters_unchecked(counts, pr) ==
    IF counts = None
    THEN Raise("TypeError")
    ELSE Ok([j \in 1..2 |-> [i \in 1..Len(counts[j]) |-> counts[j][i] * Den + pr[j]]])

\* Mutant of posterior_beta_parameters: the prior added without unsqueeze(-1), so
\* that it pairs with the arms instead of with the rows (wins, losses).
posterior_beta_parameters_by_arm(counts, pr) ==
    IF counts = None
    THEN Raise("ModelNotTrainedError")
    ELSE Ok([j \in 1..2 |->
                [i \in 1..Len(counts[j]) |->
                    counts[j][i] * Den + pr[IF i <= 2 THEN i ELSE 2]]])

\* _posterior_beta_parameters: raises when untrained, otherwise the (2, N) table
\* _win_lose_counts + prior.to_torch().unsqueeze(-1), in units of 1/Den.
posterior_beta_parameters(counts, pr) ==
    IF counts = None
    THEN Raise("ModelNotTrainedError")
    ELSE Ok([j \in 1..2 |-> [i \in 1..Len(counts[j]) |-> counts[j][i] * Den + pr[j]]])

Max(a, b) == IF a >= b THEN a ELSE b

\* Mutant of BetaMode: the mean a/(a+b) of the distribution instead of its mode.
BetaMean(a, b) == <<a, a + b>>

\* torch.distributions.Beta(a, b).mode, which is Dirichlet([a, b]).mode[..., 0]:
\* (concentration - 1).clamp(min=0) normalised by its sum (0/0 is not-a-number);
\* where both concentrations are below 1 the one-hot vector of the argmax of the
\* all-nan row, i.e. of index 0, replaces it.
BetaMode(a, b) ==
    LET am1 == Max(a - Den, 0)
        bm1 == Max(b - Den, 0)
    IN  IF a < Den /\ b < Den THEN <<1, 1>> ELSE <<am1, am1 + bm1>>

\* maximum_a_posteriori_per_arm: Beta(*self._posterior_beta_parameters()).mode
ModePerArm(params) ==
    [i \in 1..Len(params[1]) |-> BetaMode(params[1][i], params[2][i])]

maximum_a_posteriori_per_arm(counts, pr) ==
    LET p == posterior_beta_parameters(counts, pr)
    IN  IF p.err # "" THEN p ELSE Ok(ModePerArm(p.res))

\* _posterior: the rows of the transposed parameter table selected by
\* candidates.argmax(-1), one Beta(alpha, beta) per candidate row; indexing
\* beyond the table raises IndexError.
BetaForCandidates(params, candidates) ==
    LET idx == [r \in 1..Len(candidates) |-> ArgMax(candidates[r])]
    IN  IF \E r \in 1..Len(idx) : idx[r] > Len(params[1])
        THEN Raise("IndexError")
        ELSE Ok([r \in 1..Len(idx) |-> <<params[1][idx[r]], params[2][idx[r]]>>])

posterior(counts, pr, candidates) ==
    LET p == posterior_beta_parameters(counts, pr)
    IN  IF p.err # "" THEN p ELSE BetaForCandidates(p.res, candidates)

\* The candidate batches of a posterior query.
Candidates == UNION { [1..m -> Rows(w)] : m \in 1..MaxCand, w \in 1..MaxArms }

Result(c, r) == [c EXCEPT !.trained = (win_lose_counts # None),
                          !.err = r.err, !.res = r.res]

PosteriorBetaParameters ==
    /\ call = NoCall
    /\ call' = Result([NoCall EXCEPT !.op = "posterior_beta_parameters"],
                      posterior_beta_parameters(win_lose_counts, prior))
    /\ UNCHANGED <<prior, win_lose_counts, readerVars, hookVars, botorchVars>>

MaximumAPosterioriPerArm ==
    /\ call = NoCall
    /\ call' = Result([NoCall EXCEPT !.op = "maximum_a_posteriori_per_arm"],
                      maximum_a_posteriori_per_arm(win_lose_counts, prior))
    /\ UNCHANGED <<prior, win_lose_counts, readerVars, hookVars, botorchVars>>

Posterior ==
    /\ call = NoCall
    /\ \E candidates \in Candidates :
        call' = Result([NoCall EXCEPT !.op = "posterior", !.cand = candidates],
                       posterior(win_lose_counts, prior, candidates))
    /\ UNCHANGED <<prior, win_lose_counts, readerVars, hookVars, botorchVars>>

\* The caller takes the result (or the exception) of the call.
Return ==
    /\ call # NoCall
    /\ call' = NoCall
    /\ UNCHANGED <<prior, win_lose_counts, readerVars, hookVars, botorchVars>>

----------------------------------------------------------------------------
(* Specification of the surrogate under a sequential caller *)

Init ==
    /\ prior \in Priors
    /\ win_lose_counts = None
    /\ call = NoCall
    /\ pc = <<>> /\ job = <<>> /\ loc = <<>>
    /\ HookIdle
    /\ BotorchIdle

Next ==
    \/ Fit
    \/ PosteriorBetaParameters
    \/ MaximumAPosterioriPerArm
    \/ Posterior
    \/ Return

Spec == Init /\ [][Next]_vars

----------------------------------------------------------------------------
(* Concurrent readers of one surrogate (SpecReaders)                        *)
(*                                                                         *)
(* Each thread runs one query at a time, statement by statement; the       *)
(* threads interleave freely. fit is the exclusive writer: the caller      *)
(* runs it only while no query is in progress.                             *)

Threads == {"t1", "t2"}

NoJob == [op |-> "none", cand |-> <<>>]
NoLocals == [params |-> <<>>, err |-> "", res |-> <<>>]

\* Candidate batches of the concurrent queries: one row of any width.
ReaderCandidates == UNION { [1..1 -> Rows(w)] : w \in 1..MaxArms }

\* Mutant of CountsAfterSum: the prior is added in place (+=), the integer
\* tensor keeping the whole part of the sum.
CountsAfterInPlaceSum(counts, pr) ==
    [j \in 1..2 |-> [i \in 1..Len(counts[j]) |-> (counts[j][i] * Den + pr[j]) \div Den]]

\* What the attribute _win_lose_counts holds after the statement
\* `return self._win_lose_counts + self.prior.to_torch().unsqueeze(-1)`:
\* the sum is a new tensor, the attribute is not assigned.
CountsAfterSum(counts, pr) == counts

\* fit with a single training row, while no query is in progress
ReaderFit ==
    /\ \A t \in Threads : pc[t] = "idle"
    /\ \E n \in 1..MaxArms :
       \E train_x \in [1..1 -> TrainRows(n)], train_y \in [1..1 -> Outcomes] :
            win_lose_counts' = FitCounts(win_lose_counts, train_x, train_y)
    /\ UNCHANGED <<prior, call, readerVars, hookVars, botorchVars>>

\* a thread calls posterior, _posterior_beta_parameters or
\* maximum_a_posteriori_per_arm
ReaderCall(t) ==
    /\ pc[t] = "idle"
    /\ \E op \in Queries :
       \E candidates \in IF op = "posterior" THEN ReaderCandidates ELSE {<<>>} :
            job' = [job EXCEPT ![t] = [op |-> op, cand |-> candidates]]
    /\ pc' = [pc EXCEPT ![t] = "check"]
    /\ UNCHANGED <<surrogateVars, loc, hookVars, botorchVars>>

\* `if self._win_lose_counts is None: raise ModelNotTrainedError`
ReaderCheck(t) ==
    /\ pc[t] = "check"
    /\ IF win_lose_counts = None
       THEN /\ loc' = [loc EXCEPT ![t].err = "ModelNotTrainedError"]
            /\ pc' = [pc EXCEPT ![t] = "done"]
       ELSE /\ pc' = [pc EXCEPT ![t] = "add"]
            /\ UNCHANGED loc
    /\ UNCHANGED <<surrogateVars, job, hookVars, botorchVars>>

\* `return self._win_lose_counts + self.prior.to_torch().unsqueeze(-1)`
ReaderAdd(t) ==
    /\ pc[t] = "add"
    /\ LET p == posterior_beta_parameters(win_lose_counts, prior)
       IN  IF job[t].op = "posterior_beta_parameters" \/ p.err # ""
           THEN /\ loc' = [loc EXCEPT ![t].err = p.err, ![t].res = p.res]
                /\ pc' = [pc EXCEPT ![t] = "done"]
           ELSE /\ loc' = [loc EXCEPT ![t].params = p.res]
                /\ pc' = [pc EXCEPT ![t] = "finish"]
    /\ win_lose_counts' = CountsAfterSum(win_lose_counts, prior)
    /\ UNCHANGED <<prior, call, job, hookVars, botorchVars>>

\* `Beta(*params).mode`, resp. `TorchPosterior(Beta(*params.T[argmax].split(1, -1)))`
ReaderFinish(t) ==
    /\ pc[t] = "finish"
    /\ LET r == IF job[t].op = "posterior"
                THEN BetaForCandidates(loc[t].params, job[t].cand)
                ELSE Ok(ModePerArm(loc[t].params))
       IN  loc' = [loc EXCEPT ![t].err = r.err, ![t].res = r.res]
    /\ pc' = [pc EXCEPT ![t] = "done"]
    /\ UNCHANGED <<surrogateVars, job, hookVars, botorchVars>>

\* the thread's caller takes the result
ReaderReturn(t) ==
    /\ pc[t] = "done"
    /\ pc' = [pc EXCEPT ![t] = "idle"]
    /\ job' = [job EXCEPT ![t] = NoJob]
    /\ loc' = [loc EXCEPT ![t] = NoLocals]
    /\ UNCHANGED <<surrogateVars, hookVars, botorchVars>>

InitReaders ==
    /\ prior \in Priors
    /\ win_lose_counts = None
    /\ call = NoCall
    /\ pc = [t \in Threads |-> "idle"]
    /\ job = [t \in Threads |-> NoJob]
    /\ loc = [t \in Threads |-> NoLocals]
    /\ HookIdle
    /\ BotorchIdle

NextReaders ==
    \/ ReaderFit
    \/ \E t \in Threads : ReaderCall(t)
    \/ \E t \in Threads : ReaderCheck(t)
    \/ \E t \in Threads : ReaderAdd(t)
    \/ \E t \in Threads : ReaderFinish(t)
    \/ \E t \in Threads : ReaderReturn(t)

SpecReaders == InitReaders /\ [][NextReaders]_vars

----------------------------------------------------------------------------
(* Specification of to_botorch (SpecBotorch) *)

InitBotorch ==
    /\ prior = <<Den, Den>>
    /\ win_lose_counts = None
    /\ call = NoCall
    /\ pc = <<>> /\ job = <<>> /\ loc = <<>>
    /\ HookIdle
    /\ BotorchIdle

NextBotorch == ToBotorch \/ BotorchReturn

SpecBotorch == InitBotorch /\ [][NextBotorch]_vars

----------------------------------------------------------------------------
(* Claims about the surrogate under a sequential caller (Spec) *)


Arms == 1..Len(win_lose_counts[1])

\* C1: on a surrogate on which no fit has completed (_win_lose_counts is None),
\* every posterior, _posterior_beta_parameters and maximum_a_posteriori_per_arm
\* call raises ModelNotTrainedError and returns no value, whatever the candidate
\* batch and the prior.
C1_UntrainedQueriesRaise ==
    (call.op \in Queries /\ win_lose_counts = None)
        => (call.err = "ModelNotTrainedError" /\ call.res = <<>>)

C1_Witness ==
    /\ call.op = "posterior" /\ win_lose_counts = None
    /\ Len(call.cand) = MaxCand /\ prior # <<Den, Den>>
    /\ call.err = "ModelNotTrainedError"

\* C2: after a completed fit on data B the counts equal those a fresh
\* (untrained) surrogate gets from fit on B alone, whether or not an earlier fit
\* had already trained the surrogate: fit overwrites and never accumulates.
C2_FitOverwrites ==
    (call.op = "fit" /\ call.err = "")
        => win_lose_counts = FitCounts(None, call.x, call.y)

C2_Witness ==
    /\ call.op = "fit" /\ call.err = "" /\ call.trained
    /\ win_lose_counts = FitCounts(None, call.x, call.y)
    /\ \E i \in Arms : win_lose_counts[1][i] > 0

\* A valid training table: one-hot candidate rows, every outcome a sentinel.
ValidTable(x, y) ==
    \A r \in 1..Len(x) :
        IsOneHot(x[r]) /\ y[r] \in {POSITIVE_VALUE_COMP, NEGATIVE_VALUE_COMP}

RowsOf(x, y, i, outcomes) ==
    { r \in 1..Len(x) : x[r] = OneHot(Len(x[r]), i) /\ y[r] \in outcomes }

\* C3: after fit on a valid training table the statistics are a 2xN table of
\* non-negative integers; wins[i] is the number of rows selecting arm i with the
\* positive outcome, losses[i] the number with the negative outcome, and
\* wins[i] + losses[i] the number of rows attributed to arm i.
C3_CountsAreRowCounts ==
    (call.op = "fit" /\ call.err = "" /\ ValidTable(call.x, call.y))
        => /\ Len(win_lose_counts) = 2
           /\ Len(win_lose_counts[1]) = Len(call.x[1])
           /\ Len(win_lose_counts[2]) = Len(call.x[1])
           /\ \A i \in Arms :
                /\ win_lose_counts[1][i] \in Nat
                /\ win_lose_counts[2][i] \in Nat
                /\ win_lose_counts[1][i]
                     = Cardinality(RowsOf(call.x, call.y, i, {POSITIVE_VALUE_COMP}))
                /\ win_lose_counts[2][i]
                     = Cardinality(RowsOf(call.x, call.y, i, {NEGATIVE_VALUE_COMP}))
                /\ win_lose_counts[1][i] + win_lose_counts[2][i]
                     = Cardinality(RowsOf(call.x, call.y, i, Outcomes))

C3_Witness ==
    /\ call.op = "fit" /\ call.err = "" /\ ValidTable(call.x, call.y)
    /\ Len(call.x) = MaxRows
    /\ \E i \in Arms : win_lose_counts[1][i] >= 1 /\ win_lose_counts[2][i] >= 1

\* C4: fit raises IncompatibleSearchSpaceError exactly when the search space is
\* not spanned by exactly one categorical parameter with one-hot encoding.
C4_IncompatibleSearchSpace ==
    (call.op = "fit")
        => ((call.err = "IncompatibleSearchSpaceError")
              <=> ~(/\ Len(call.ss) = 1
                    /\ call.ss[1] = [cls |-> "CategoricalParameter",
                                     encoding |-> "OHE"]))

C4_Witness ==
    /\ call.op = "fit" /\ call.err = "IncompatibleSearchSpaceError"
    /\ Len(call.ss) = 2
    /\ \A k \in 1..2 : call.ss[k] = [cls |-> "CategoricalParameter",
                                     encoding |-> "OHE"]

\* C5: on a trained surrogate the posterior beta parameters are, for every arm
\* i, alpha[i] = wins[i] + prior alpha and beta[i] = losses[i] + prior beta,
\* computed from the counts stored at the time of the query, and both are
\* strictly greater than zero.
C5_PosteriorParameters ==
    (call.op = "posterior_beta_parameters" /\ win_lose_counts # None)
        => /\ call.err = ""
           /\ Len(call.res) = 2
           /\ \A j \in 1..2 : Len(call.res[j]) = Len(win_lose_counts[j])
           /\ \A i \in Arms :
                /\ call.res[1][i] = win_lose_counts[1][i] * Den + prior[1]
                /\ call.res[2][i] = win_lose_counts[2][i] * Den + prior[2]
                /\ call.res[1][i] > 0
                /\ call.res[2][i] > 0

C5_Witness ==
    /\ call.op = "posterior_beta_parameters" /\ call.err = ""
    /\ prior[1] # prior[2]
    /\ \E i \in Arms : win_lose_counts[1][i] > 0 /\ win_lose_counts[2][i] = 0
    /\ \E i \in Arms : win_lose_counts[1][i] = 0 /\ win_lose_counts[2][i] > 0

IsNaN(q) == q[2] = 0

\* q is the quotient num/den of a non-zero denominator
IsQuotient(q, num, den) == den # 0 /\ q[2] # 0 /\ q[1] * den = num * q[2]

PosteriorAlpha(i) == win_lose_counts[1][i] * Den + prior[1]
PosteriorBeta(i) == win_lose_counts[2][i] * Den + prior[2]

IsFirstMaximum(row, k) ==
    /\ k \in 1..Len(row)
    /\ \A j \in 1..Len(row) : row[j] <= row[k]
    /\ \A j \in 1..Len(row) : row[j] = row[k] => k <= j

\* C7: on a trained surrogate posterior(candidates) returns exactly one Beta
\* distribution per candidate row, with the posterior parameters
\* (alpha[k], beta[k]) of the arm k at which the row's indicator values are
\* maximal (the first such arm when the row is ambiguous); this covers every
\* batch whose rows select an arm of the table, one-hot or not.
C7_PosteriorPerCandidate ==
    (/\ call.op = "posterior" /\ win_lose_counts # None
     /\ \A r \in 1..Len(call.cand) :
            \E k \in Arms : IsFirstMaximum(call.cand[r], k))
        => /\ call.err = ""
           /\ Len(call.res) = Len(call.cand)
           /\ \A r \in 1..Len(call.cand) :
                \E k \in Arms :
                    /\ IsFirstMaximum(call.cand[r], k)
                    /\ call.res[r] = <<PosteriorAlpha(k), PosteriorBeta(k)>>

C7_Witness ==
    /\ call.op = "posterior" /\ call.err = ""
    /\ Len(call.cand) = 2 /\ Len(call.cand[1]) = 2 /\ Len(win_lose_counts[1]) = 2
    /\ call.cand[1] = <<0, 1>> /\ call.cand[2] = <<1, 1>>
    /\ call.res[1] = <<PosteriorAlpha(2), PosteriorBeta(2)>> /\ call.res[2] = <<PosteriorAlpha(1), PosteriorBeta(1)>>
    /\ call.res[1] # call.res[2]

\* C8 as stated: a posterior query whose candidate width differs from the arm
\* count N of the last fit fails with an error.
C8_WidthMismatchFails ==
    (/\ call.op = "posterior" /\ win_lose_counts # None
     /\ \E r \in 1..Len(call.cand) : Len(call.cand[r]) # Len(win_lose_counts[1]))
        => call.err # ""

FitFailed(c) == c.op = "fit" /\ c.err = "IncompatibleSearchSpaceError"

\* C15: a fit that fails with IncompatibleSearchSpaceError leaves the win/loss
\* counts exactly as they were before the call: an untrained surrogate stays
\* untrained, so that posterior still raises ModelNotTrainedError for every
\* candidate batch, and a trained surrogate keeps the counts of its last
\* successful fit.
C15_FailedFitKeepsCounts ==
    /\ [][FitFailed(call') => win_lose_counts' = win_lose_counts]_vars
    /\ []((FitFailed(call) /\ ~call.trained)
            => /\ win_lose_counts = None
               /\ \A candidates \in Candidates :
                    posterior(win_lose_counts, prior, candidates).err
                        = "ModelNotTrainedError")

C15_Witness ==
    /\ FitFailed(call) /\ call.trained
    /\ win_lose_counts # None
    /\ \E i \in Arms : win_lose_counts[1][i] > 0 /\ win_lose_counts[2][i] > 0

----------------------------------------------------------------------------
(* Claims about concurrent readers (SpecReaders) *)

\* The result of thread t's query when it runs alone on the surrogate.
AloneResult(t) ==
    IF job[t].op = "posterior"
    THEN posterior(win_lose_counts, prior, job[t].cand)
    ELSE IF job[t].op = "maximum_a_posteriori_per_arm"
    THEN maximum_a_posteriori_per_arm(win_lose_counts, prior)
    ELSE posterior_beta_parameters(win_lose_counts, prior)

QueryInProgress == \E t \in Threads : pc[t] # "idle"

ReadersAgreeWithAlone ==
    \A t \in Threads :
        pc[t] = "done"
            => (loc[t].err = AloneResult(t).err /\ loc[t].res = AloneResult(t).res)

\* C9: posterior and maximum_a_posteriori_per_arm never modify the stored counts
\* or the prior: under any interleaving of concurrent queries on one surrogate,
\* with no fit running meanwhile, no step taken while a query is in progress
\* changes the counts or the prior, and every query returns the result it
\* returns when run alone.
C9_ReadersDoNotInterfere ==
    /\ []ReadersAgreeWithAlone
    /\ [][QueryInProgress => UNCHANGED <<win_lose_counts, prior>>]_vars

C9_Witness ==
    /\ win_lose_counts # None
    /\ pc["t1"] = "done" /\ job["t1"].op = "posterior" /\ loc["t1"].err = ""
    /\ pc["t2"] = "finish" /\ job["t2"].op = "maximum_a_posteriori_per_arm"

----------------------------------------------------------------------------
(* Claims about the structure hook (SpecLoad) *)

\* C10: loading a persisted configuration whose tag is a deprecated name, given
\* as a bare string or as a record with a type field, yields an object equal
\* to the modern replacement constructed directly with beta = 100.0
\* (UpperConfidenceBound for VarUCB, qUpperConfidenceBound for qVarUCB), and
\* emits exactly one DeprecationWarning during the load.
C10_DeprecatedLoadsAsModern ==
    (/\ stage = "done"
     /\ given.isstr \/ "type" \in given.keys
     /\ given.type \in {"VarUCB", "qVarUCB"})
        => /\ warned = 1
           /\ given.type = "VarUCB" => obj = Construct("UpperConfidenceBound", "100.0")
           /\ given.type = "qVarUCB" => obj = Construct("qUpperConfidenceBound", "100.0")

C10_Witness ==
    /\ stage = "done"
    /\ ~given.isstr /\ given.keys = {"type", "beta"}
    /\ given.type = "qVarUCB" /\ given.beta = "5.0"
    /\ obj = Construct("qUpperConfidenceBound", "100.0")
    /\ warned = 1

HasTag(v) == v.isstr \/ "type" \in v.keys

\* C11: in the structure hook the deprecated-name rewrite and its warning come
\* before the base structure hook does anything: while the load warns or
\* rewrites the base hook has not been invoked and nothing is structured, the
\* base hook is invoked at most once, never with a deprecated tag, and for a
\* deprecated input only with the rewritten value, after the warning.
C11_RewriteBeforeBaseHook ==
    /\ Len(hooked) <= 1
    /\ stage \in {"entry", "warn", "rewrite", "hook"} => (hooked = <<>> /\ obj = NoObject)
    /\ \A i \in 1..Len(hooked) :
        /\ HasTag(hooked[i]) => hooked[i].type \notin {"VarUCB", "qVarUCB"}
        /\ hooked[i] = val
        /\ (HasTag(given) /\ given.type \in {"VarUCB", "qVarUCB"})
              => (warned = 1 /\ hooked[i] # given)

C11_Witness ==
    /\ stage = "done"
    /\ given = Str("VarUCB")
    /\ warned = 1
    /\ Len(hooked) = 1 /\ hooked[1].type = "UpperConfidenceBound"
    /\ obj.err = ""

\* C16: for a persisted value whose tag is a deprecated name the base hook
\* receives exactly {type: modern name, beta: 100.0}, every other field of the
\* persisted record, a stored beta included, being discarded; a value whose tag
\* is not a deprecated name reaches the base hook unchanged and without a
\* warning.
C16_HandedToBaseHook ==
    \A i \in 1..Len(hooked) :
        IF given.type \in {"VarUCB", "qVarUCB"}
        THEN hooked[i] = [isstr |-> FALSE, keys |-> {"type", "beta"},
                          type |-> IF given.type = "VarUCB"
                                   THEN "UpperConfidenceBound"
                                   ELSE "qUpperConfidenceBound",
                          beta |-> "100.0"]
        ELSE hooked[i] = given /\ warned = 0

C16_Witness ==
    /\ Len(hooked) = 1
    /\ ~given.isstr /\ given.type = "VarUCB" /\ given.beta = "1.0"
    /\ hooked[1].type = "UpperConfidenceBound" /\ hooked[1].beta = "100.0"
    /\ hooked[1].keys = {"type", "beta"}

----------------------------------------------------------------------------
(* Claims about to_botorch (SpecBotorch) *)

\* The call with the fields the looked-up constructor does not accept removed
\* from the configuration.
RecognizedOnly(a) == [a EXCEPT !.fields = { f \in @ : f \in a.cls.params }]

\* C12: to_botorch passes to the target constructor exactly the configuration
\* fields whose names that constructor accepts; a field it does not accept is
\* dropped and changes nothing about the outcome of the construction (no
\* failure comes from it), whereas the construction fails when a field the
\* selected formula requires is absent from the configuration.
C12_OnlyAcceptedFieldsPassed ==
    (built.done /\ acqf.cls.found) =>
        /\ built.kwargs \ {"best_f"} = { f \in acqf.fields : f \in acqf.cls.params }
        /\ built.err = to_botorch(RecognizedOnly(acqf)).err
        /\ ( /\ built.path = "analytic"
             /\ \E p \in acqf.cls.required \ {"best_f"} : p \notin acqf.fields )
           => built.err # ""
        /\ ( /\ built.path = "mc"
             /\ acqf.factory.found
             /\ \E p \in acqf.factory.required : p \notin acqf.fields )
           => built.err # ""

\* An analytic construction that succeeds although the configuration carries a
\* field the constructor does not accept, next to one it requires.
C12_Witness ==
    /\ built.done /\ built.path = "analytic" /\ built.err = ""
    /\ acqf.fields = {"beta", "gamma"}
    /\ acqf.cls.required = {"beta"}
    /\ built.kwargs = {"beta"}

\* C13, as stated: the abbreviation is the name by which the implementation is
\* looked up, it alone decides the branch (Monte-Carlo exactly when it starts
\* with "q", analytic exactly otherwise), and an abbreviation without an
\* implementation surfaces as a failure. Stated of the calls that reach a
\* construction.
C13_AbbreviationIsDispatchKey ==
    (built.done /\ built.path # "") =>
        /\ built.key = acqf.abbreviation
        /\ built.path = "mc" <=> StartsWith(acqf.abbreviation, "q")
        /\ built.path = "analytic" <=> ~StartsWith(acqf.abbreviation, "q")
        /\ built.path = "mc" =>
              /\ built.objective = "IdentityMCObjective"
              /\ built.X_observed = acqf.train_x
        /\ ~acqf.factory.found => built.err # ""

\* C13, amended: the implementation class is looked up by the class name, on
\* both paths and before the branch, and a class name without an
\* implementation fails with AttributeError before either construction. Once
\* that lookup succeeded the abbreviation alone decides the branch: the
\* Monte-Carlo construction (the factory called with the abbreviation, an
\* identity objective and the observed training inputs) exactly when it starts
\* with "q", the analytic construction (the looked-up class called) exactly
\* otherwise. An abbreviation the factory does not know fails on the
\* Monte-Carlo path.
C13_ClassNameLookupThenBranch ==
    built.done =>
        /\ ~acqf.cls.found =>
              /\ built.err = "AttributeError"
              /\ built.path = ""
        /\ acqf.cls.found =>
              /\ built.path = "mc" <=> StartsWith(acqf.abbreviation, "q")
              /\ built.path = "analytic" <=> ~StartsWith(acqf.abbreviation, "q")
              /\ built.path = "mc" =>
                    /\ built.key = acqf.abbreviation
                    /\ built.objective = "IdentityMCObjective"
                    /\ built.X_observed = acqf.train_x
                    /\ ~acqf.factory.found => built.err # ""
              /\ built.path = "analytic" =>
                    /\ built.key = acqf.name
                    /\ built.objective = ""
                    /\ built.X_observed = <<>>

\* A Monte-Carlo construction that succeeds under a class name that differs
\* from the abbreviation.
C13_Witness ==
    /\ built.done /\ built.path = "mc" /\ built.err = ""
    /\ acqf.name = <<"qUpperConfidenceBound">>
    /\ acqf.abbreviation = <<"q", "U", "C", "B">>
    /\ built.key = acqf.abbreviation

\* C14: on the analytic path best_f is the maximum of the observed training
\* outcomes and is passed to the constructor if and only if the constructor
\* has a parameter named best_f; on the Monte-Carlo path no best_f is computed
\* or passed.
C14_BestFOnAnalyticPathOnly ==
    built.done =>
        /\ built.path = "analytic" =>
              /\ Len(built.best_f) = 1
              /\ \E r \in 1..Len(acqf.train_y) : acqf.train_y[r] = built.best_f[1]
              /\ \A r \in 1..Len(acqf.train_y) : acqf.train_y[r] <= built.best_f[1]
              /\ "best_f" \in built.kwargs <=> "best_f" \in acqf.cls.params
        /\ built.path = "mc" =>
              /\ built.best_f = <<>>
              /\ "best_f" \notin built.kwargs

\* An analytic construction over outcomes that differ, whose constructor takes
\* best_f.
C14_Witness ==
    /\ built.done /\ built.path = "analytic" /\ built.err = ""
    /\ "best_f" \in acqf.cls.params
    /\ "best_f" \in built.kwargs
    /\ \E r \in 1..Len(acqf.train_y) : acqf.train_y[r] < built.best_f[1]

====
